---- MODULE Spec2Model ----
(***************************************************************************)
(* State-machine model of bulletarm_baselines/vtt/vtt/trainer.py (Trainer) *)
(* together with the collaborators it talks to: the shared-storage actor,  *)
(* the replay-buffer actor and the data generator, and of                  *)
(* bulletarm_baselines/vtt/vtt/agent.py (Agent).                           *)
(*                                                                         *)
(* Four specifications share the variables: Spec runs the Trainer (its     *)
(* Agent is used inside the data generator and is left as constructed),    *)
(* SpecAgent drives an Agent through its episode and weight interface,     *)
(* SpecActions applies the Agent's action conversions to given actions,    *)
(* SpecLive runs the Trainer under weak fairness of its own steps and of   *)
(* the shared storage, for the properties about returning.                 *)
(*                                                                         *)
(* Abstractions.                                                           *)
(*  - Model parameters of the latent model and the actor are opaque        *)
(*    tensors; they are represented by a version number, the number of     *)
(*    optimizer steps applied to them since construction.                  *)
(*  - The critic and the target critic are sequences of numbers,           *)
(*    because softTargetUpdate computes with their values.  Values are     *)
(*    held in units of 1/Unit so that tau = k/TauDen is applied exactly.   *)
(*  - An optimizer's state_dict is [moments, step, lr, params]: whose      *)
(*    parameters its moment estimates belong to, how many steps it took,   *)
(*    how many times its learning rate was decayed, and how many parameter *)
(*    tensors its group holds.  load_state_dict raises when that number    *)
(*    differs from the optimizer's own; the constructor then fails.        *)
(*  - Calls f.remote(...) on the shared storage are messages appended to   *)
(*    a FIFO queue (an actor runs one caller's requests in issue order);   *)
(*    ray.get(getInfo.remote(k)) therefore returns only once the queue     *)
(*    has been drained.                                                    *)
(***************************************************************************)
EXTENDS Integers, Sequences, FiniteSets, TLC

\* ------------------------------------------------------------------ bounds
MaxPretrainingSteps == 2
MaxTrainingSteps == 2
MaxInterval == 2
MaxEpisodes == 2
TauDen == 2
MaxSeqLen == 3
MaxEnvs == 2
MaxCalls == 4
MaxDelta == 2
NormDen == 1

\* one unit of parameter value: every division by TauDen made by at most
\* MaxTrainingSteps + 1 soft updates is exact
RECURSIVE Pow(_, _)
Pow(b, e) == IF e = 0 THEN 1 ELSE b * Pow(b, e - 1)
Unit == Pow(TauDen, MaxTrainingSteps + 1)

\* Python's None (a missing tuple)
None == <<>>

Roles == {"latent", "actor", "critic", "alpha"}

\* ------------------------------------------------------------- optimizers
\* torch.optim.Adam(params, ...) right after construction: no state,
\* lr = lr_init, and one parameter group holding the n tensors of params
FreshOptimizer(n) == [moments |-> "none", step |-> 0, lr |-> 0, params |-> n]

\* lines 34 and 59-70: the four optimizers, each over the parameters of
\* its own model; sizes[r] is the number of parameter tensors of r
Optimizers(sizes) == [r \in Roles |-> FreshOptimizer(sizes[r])]

\* optimizer.step() on the optimizer of the given role
OptimizerStep(role, st) == [st EXCEPT !.moments = role, !.step = @ + 1]

\* ExponentialLR.step(): one more decay of the optimizer's learning rate
SchedulerStep(st) == [st EXCEPT !.lr = @ + 1]

\* optimizer.state_dict() moved to the cpu and deep-copied: the value itself
StateDict(st) == st

\* the exception torch raises for a state dict whose parameter group does
\* not have the size of the optimizer's group
ValueError == [raised |-> "ValueError"]

\* optimizer.load_state_dict(sd): the optimizer takes the saved state, step
\* count and learning rate, unless the group sizes differ, and then the
\* call raises and leaves the optimizer as it was
LoadStateDict(st, sd) == IF sd.params = st.params THEN sd ELSE ValueError

\* Trainer.__init__, lines 59-78: the four optimizers after construction,
\* or the exception that ends the constructor.  The actor optimizer is
\* loaded first; the critic optimizer is loaded only if that succeeded.
RestoreOptimizers(optimizer_state, sizes) ==
  LET fresh == Optimizers(sizes)
      loaded_actor == LoadStateDict(fresh["actor"], optimizer_state[1])
      loaded_critic == LoadStateDict(fresh["critic"], optimizer_state[2])
  IN IF optimizer_state = None THEN fresh
     ELSE IF loaded_actor = ValueError THEN ValueError
     ELSE IF loaded_critic = ValueError THEN ValueError
     ELSE [fresh EXCEPT !["actor"] = loaded_actor,
                        !["critic"] = loaded_critic]

\* lines 195-204: the 'optimizer_state' value of a checkpoint
CheckpointOptimizerState(o) ==
  << StateDict(o["latent"]), StateDict(o["actor"]), StateDict(o["critic"]) >>

\* lines 192-201: the 'weights' value of a checkpoint
CheckpointWeights(lat, act, crit) == << lat, act, crit >>

\* --------------------------------------------------------- loop conditions
\* line 135: self.pre_training_step < self.config.pretraining_steps
PretrainingPending(pts, cfg) == pts < cfg.pretraining_steps

\* faulty variant: the policy loop runs until the target is exceeded
TrainingPending_Inclusive(ts, cfg) == ts <= cfg.training_steps

\* line 161: self.training_step < self.config.training_steps
TrainingPending(ts, cfg) == ts < cfg.training_steps

\* faulty variant: the loop condition forgets the terminate flag
LoopContinues_IgnoresTerminate(pending, terminate) == pending

\* lines 136 and 162: "... and not ray.get(getInfo('terminate'))"
LoopContinues(pending, terminate) == pending /\ ~terminate

\* line 186
LrDecayDue(ts, cfg) == ts > 0 /\ ts % cfg.lr_decay_interval = 0

\* faulty variant: a checkpoint on every iteration
CheckpointDue_EveryStep(ts, cfg) == TRUE

\* line 191
CheckpointDue(ts, cfg) == ts % cfg.checkpoint_interval = 0

\* line 216
RunEvalInterval(ts, cfg) == ts > 0 /\ ts % cfg.eval_interval = 0

\* line 147: the value published under 'pretraining_step'
PublishedPretrainingStep(pts) == pts

\* faulty variant: the counter is published as it was before the increment
PublishedTrainingStep_Stale(ts) == ts - 1

\* line 215: the value published under 'training_step'
PublishedTrainingStep(ts) == ts

\* line 157: self.pre_training_step += 1
PreTrainingStepInc(pts) == pts + 1

\* faulty variant: the counter advances by two
TrainingStepInc_Twice(ts) == ts + 2

\* line 178: self.training_step += 1
TrainingStepInc(ts) == ts + 1

\* ------------------------------------------------------- softTargetUpdate
\* faulty variant: live and target swapped in the average
PolyakValue_Swapped(t, l, tau) == (tau * t + (TauDen - tau) * l) \div TauDen

\* lines 347-348, zip over the parameters of target and live critic;
\* tau is the numerator k of tau = k / TauDen
PolyakValue(t, l, tau) == (tau * l + (TauDen - tau) * t) \div TauDen

softTargetUpdate(target, live, tau) ==
  [i \in 1..(IF Len(target) < Len(live) THEN Len(target) ELSE Len(live)) |->
     PolyakValue(target[i], live[i], tau)]

\* ------------------------------------------------------------------ Agent
\* Model of bulletarm_baselines/vtt/vtt/agent.py (Agent).
\*  - A vision frame is a row of pixels, a force reading a row of numbers,
\*    an action a row of five numbers (p, dx, dy, dz, dtheta).
\*  - A normalized action component u is held as the integer u * NormDen,
\*    a physical component a as the integer a * PhysDen, PhysDen being
\*    2 * NormDen: 0.5 * (u + 1) * (max - min) + min is then an integer for
\*    integer range limits, and the arithmetic of the two conversions is
\*    exact on the values min + j * (max - min) / PhysDen.
\*  - The encoder and actor.sample are opaque: the sampled action is any
\*    of a few normalized actions.
PhysDen == 2 * NormDen

\* a physical quantity given in whole units, in units of 1/PhysDen
Phys(x) == PhysDen * x

\* lines 21-25: the ranges, << min, max >> in whole physical units
p_range == << 0, 1 >>
dx_range(cfg) == << -cfg.dpos, cfg.dpos >>
dy_range(cfg) == << -cfg.dpos, cfg.dpos >>
dz_range(cfg) == << -cfg.dpos, cfg.dpos >>
dtheta_range(cfg) == << -cfg.drot, cfg.drot >>

\* torch.zeros(n): a row of n zeros
Zeros(n) == [i \in 1..n |-> 0]

\* torch.zeros(num_data_gen_envs, slots, ...): per environment, 'slots'
\* zero entries
ZeroHistory(envs, slots, entry) == [e \in 1..envs |-> [i \in 1..slots |-> entry]]

\* faulty variant: the action history gets as many slots as the others
ActionSlots_SeqLen(cfg) == cfg.seq_len

\* line 54: the action history has one slot less than the sequence length
ActionSlots(cfg) == cfg.seq_len - 1

\* line 52: slots of the vision history
VisionSlots(cfg) == cfg.seq_len

\* line 53: slots of the force history
ForceSlots(cfg) == cfg.seq_len

\* torch.roll(h, -1, 1) on one environment's history: every entry moves one
\* slot towards the front, the first entry wraps around to the last slot
Roll(h) == [i \in 1..Len(h) |-> h[(i % Len(h)) + 1]]

\* h[:, -1] = v on one environment's history
SetLast(h, v) == [h EXCEPT ![Len(h)] = v]

\* faulty variant: the new entry is written without rolling first
Push_NoRoll(h, v) == SetLast(h, v)

\* lines 71-74 and 85-86: roll by one, then overwrite the last slot
Push(h, v) == SetLast(Roll(h), v)

\* torch_utils.centerCrop(vision, out): the middle 'out' pixels
centerCrop(frame, out) ==
  LET left == (Len(frame) - out) \div 2 IN
    [i \in 1..out |-> frame[left + i]]

\* torch_utils.normalizeForce(force, max_force)
normalizeForce(reading, max_force) ==
  [i \in 1..Len(reading) |-> reading[i] \div max_force]

\* faulty variant: the two range limits are exchanged
Decode_Swapped(u, range) ==
  (u + NormDen) * (range[1] - range[2]) + Phys(range[2])

\* lines 107-112, one component:
\* 0.5 * (u + 1) * (range[1] - range[0]) + range[0]
Decode(u, range) ==
  (u + NormDen) * (range[2] - range[1]) + Phys(range[1])

\* lines 143-154:
\* 2 * (action - action_range[0]) / (action_range[1] - action_range[0]) - 1
getUnscaledActions(action, action_range) ==
  (2 * (action - Phys(action_range[1])) * NormDen)
     \div (Phys(action_range[2]) - Phys(action_range[1])) - NormDen

\* faulty variant: values above the range are let through
clamp_NoMax(x, range) ==
  IF x < Phys(range[1]) THEN Phys(range[1]) ELSE x

\* tensor.clamp(min, max), one component
clamp(x, range) ==
  IF x < Phys(range[1]) THEN Phys(range[1])
  ELSE IF x > Phys(range[2]) THEN Phys(range[2]) ELSE x

\* lines 94-117 on a batch: one row of five components per environment
decodeActions(unscaled, cfg) ==
  [unscaled |-> unscaled,
   scaled   |-> [e \in DOMAIN unscaled |->
                   << Decode(unscaled[e][1], p_range),
                      Decode(unscaled[e][2], dx_range(cfg)),
                      Decode(unscaled[e][3], dy_range(cfg)),
                      Decode(unscaled[e][4], dz_range(cfg)),
                      Decode(unscaled[e][5], dtheta_range(cfg)) >>]]

\* lines 119-141
convertPlanAction(plan_action, cfg) ==
  LET p      == [e \in DOMAIN plan_action |-> clamp(plan_action[e][1], p_range)]
      dx     == [e \in DOMAIN plan_action |-> clamp(plan_action[e][2], dx_range(cfg))]
      dy     == [e \in DOMAIN plan_action |-> clamp(plan_action[e][3], dy_range(cfg))]
      dz     == [e \in DOMAIN plan_action |-> clamp(plan_action[e][4], dz_range(cfg))]
      dtheta == [e \in DOMAIN plan_action |-> clamp(plan_action[e][5], dtheta_range(cfg))]
  IN decodeActions(
       [e \in DOMAIN plan_action |->
          << getUnscaledActions(p[e], p_range),
             getUnscaledActions(dx[e], dx_range(cfg)),
             getUnscaledActions(dy[e], dy_range(cfg)),
             getUnscaledActions(dz[e], dz_range(cfg)),
             getUnscaledActions(dtheta[e], dtheta_range(cfg)) >>],
       cfg)

\* lines 156-161: the three state dicts, latent first
getWeights(w) == << w.latent, w.actor, w.critic >>

\* faulty variant: the actor and critic entries are loaded crosswise
setWeights_Crossed(w, weights) ==
  IF weights # None
    THEN [latent |-> weights[1], actor |-> weights[3], critic |-> weights[2]]
    ELSE w

\* lines 163-173
setWeights(w, weights) ==
  IF weights # None
    THEN [latent |-> weights[1], actor |-> weights[2], critic |-> weights[3]]
    ELSE w

\* ------------------------------------------------------------------ state
VARIABLES
  config,            \* self.config, read-only after construction
  initial,           \* what the Trainer was constructed from
  pc,                \* position of the Trainer actor
  pre_training_step, \* self.pre_training_step
  training_step,     \* self.training_step
  opt,               \* role -> state of latent/actor/critic/alpha optimizer
  latent,            \* version of the latent model's parameters
  actor,             \* version of the actor's parameters
  critic,            \* values of the critic's parameters
  critic_target,     \* values of the target critic's parameters
  next_batch,        \* the sample future held in next_batch
  batch,             \* the batch the current iteration works on
  num_eps,           \* num_expert_eps / current_eps of a generation loop
  target_eps,        \* the episode target of the running generation loop
  env_pending,       \* data generator: stepEnvsAsync requests not yet waited for
  sample_requests,   \* replay buffer: sample requests issued so far
  info,              \* shared storage: the info dictionary
  queue,             \* shared storage: requests of the Trainer not yet run
  saved,             \* shared storage: what saveCheckpoint persisted last
  hist,              \* history of the run (observations, not program state)
  agent_config,      \* Agent: self.config
  vision_history,    \* Agent: self.vision_history
  force_history,     \* Agent: self.force_history
  action_history,    \* Agent: self.action_history
  agent_weights,     \* Agent: parameters of self.latent, self.actor, self.critic
  agent_ret,         \* Agent: the last call and what it returned
  agent_hist         \* Agent: calls since the last reset and calls the
                     \* last reset discarded (observations)

vars == << config, initial, pc, pre_training_step, training_step, opt, latent,
           actor, critic, critic_target, next_batch, batch, num_eps,
           target_eps, env_pending, sample_requests, info, queue, saved, hist,
           agent_config, vision_history, force_history, action_history,
           agent_weights, agent_ret, agent_hist >>

trainerVars == << pre_training_step, training_step, opt, latent, actor,
                  critic, critic_target >>
batchVars == << next_batch, batch, sample_requests >>
genVars == << num_eps, target_eps >>
storageVars == << info, saved >>
agentVars == << agent_config, vision_history, force_history, action_history,
               agent_weights, agent_ret, agent_hist >>
trainerSide == << config, initial, pc, trainerVars, batchVars, genVars,
                 env_pending, storageVars, queue, hist >>

NoBatch == [kind |-> "none", id |-> 0]

\* sample parameter vectors of a critic with two parameters
CriticParams == { << 0, Unit >>, << Unit, 0 >> }

\* The numbers of parameter tensors of LatentModel, GaussianPolicy and
\* TwinnedQNetwork (lines 37-45) are fixed by classes defined elsewhere;
\* the alpha optimizer holds the one tensor log_alpha (line 34).  Three
\* cases: the three models have as many tensors as each other, the
\* latent model has more than the actor, the critic has more than the
\* actor.
EqualSizes == [latent |-> 1, actor |-> 1, critic |-> 1, alpha |-> 1]
LargerLatent == [latent |-> 2, actor |-> 1, critic |-> 1, alpha |-> 1]
LargerCritic == [latent |-> 1, actor |-> 1, critic |-> 2, alpha |-> 1]
ModelSizes == { EqualSizes, LargerLatent, LargerCritic }

\* an 'optimizer_state' a previous run with models of these sizes could
\* have checkpointed
SavedOptimizerState(sizes) ==
  << [moments |-> "latent", step |-> 2, lr |-> 0, params |-> sizes.latent],
     [moments |-> "actor",  step |-> 1, lr |-> 1, params |-> sizes.actor],
     [moments |-> "critic", step |-> 1, lr |-> 1, params |-> sizes.critic] >>

\* initial checkpoints of a Trainer whose models have the given sizes: a
\* fresh run, a run resumed from step counters only, and a run resumed
\* from a checkpoint that holds the optimizer states of such models
InitialCheckpoints(sizes) ==
  { [pre_training_step |-> 0, training_step |-> 0, optimizer_state |-> None],
    [pre_training_step |-> 1, training_step |-> 1, optimizer_state |-> None],
    [pre_training_step |-> 0, training_step |-> 1,
     optimizer_state |-> SavedOptimizerState(sizes)] }

\* The constructor's inputs: the sizes of the models, the initial
\* checkpoint and the critics' parameter values.  A checkpoint without
\* optimizer states is taken with models of one size setting, because
\* nothing is loaded from it; one with optimizer states with all three.
Initials(critic_targets) ==
  { ini \in [sizes : ModelSizes,
             checkpoint : UNION { InitialCheckpoints(sz) : sz \in ModelSizes },
             critic : { << 0, Unit >> },
             critic_target : critic_targets] :
      /\ ini.checkpoint \in InitialCheckpoints(ini.sizes)
      /\ ini.checkpoint.optimizer_state = None => ini.sizes = LargerLatent }

\* The options that steer the loops are drawn independently; the options
\* that only feed a computation (the two reporting intervals, tau and the
\* expert episode target) are drawn together as one of a few settings,
\* which cover every value of each of them, equal and unequal intervals.
Largest(S) == CHOOSE x \in S : \A y \in S : y <= x
Profiles == 0..Largest({TauDen, MaxEpisodes, MaxInterval})

Configs ==
  { [pretraining_steps     |-> p,
     training_steps        |-> t,
     checkpoint_interval   |-> c,
     save_model            |-> s,
     eval_interval         |-> 1 + (k % MaxInterval),
     lr_decay_interval     |-> 1 + (((k + 1) \div 2) % MaxInterval),
     tau                   |-> k % (TauDen + 1),
     num_expert_episodes   |-> k % (MaxEpisodes + 1)] :
    p \in 0..MaxPretrainingSteps, t \in 0..MaxTrainingSteps,
    c \in 1..MaxInterval, s \in BOOLEAN, k \in Profiles }

\* shared storage right after it was created from the initial checkpoint
InitialInfo(ckpt) ==
  [terminate         |-> FALSE,
   pause_training    |-> FALSE,
   pretraining_step  |-> ckpt.pre_training_step,
   training_step     |-> ckpt.training_step,
   run_eval_interval |-> FALSE,
   weights           |-> None,
   optimizer_state   |-> ckpt.optimizer_state]

InitialHist ==
  [preStarted |-> 0, preDone |-> 0, polStarted |-> 0, polDone |-> 0,
   ckpts |-> 0, saves |-> 0, softCalls |-> 0,
   startedOnTerminate |-> FALSE, preExit |-> "none", polExit |-> "none",
   capturedAt |-> -1,
   sentPretrainingStep |-> -1, sentTrainingStep |-> -1,
   sentRunEval |-> FALSE, prevTarget |-> None, pausedPoll |-> FALSE]

\* ------------------------------------------------------- Agent: the state
\* the last call: the operation, its arguments and its result
NoReturn == [op |-> "__init__", args |-> << >>, out |-> << >>]

\* a call that is about to be made with the given arguments
Pending(args) == [op |-> "pending", args |-> args, out |-> << >>]

\* the parameters of models the Agent created itself (lines 33, 40, 47)
OwnModels == [latent |-> 0, actor |-> 0, critic |-> 0]

\* the models handed to the constructor (lines 30, 37, 44): the Agent of
\* the Trainer works on the Trainer's own model objects
TrainerModels == [latent |-> "trainer", actor |-> "trainer", critic |-> "trainer"]

\* weights another process could send: a << latent, actor, critic >> triple
WeightSamples == { << 1, 2, 3 >>, << 3, 1, 2 >> }

\* lines 51-54: the three histories of a configuration
EpisodeHistories(cfg) ==
  [vision |-> ZeroHistory(cfg.num_data_gen_envs, VisionSlots(cfg),
                          Zeros(cfg.vision_size)),
   force  |-> ZeroHistory(cfg.num_data_gen_envs, ForceSlots(cfg),
                          Zeros(cfg.force_dim)),
   action |-> ZeroHistory(cfg.num_data_gen_envs, ActionSlots(cfg),
                          Zeros(cfg.action_dim))]

\* Agent.__init__ (lines 17-49)
AgentConstructed(cfg, models) ==
  /\ agent_config = cfg
  /\ vision_history = EpisodeHistories(cfg).vision
  /\ force_history = EpisodeHistories(cfg).force
  /\ action_history = EpisodeHistories(cfg).action
  /\ agent_weights = models
  /\ agent_hist = [calls |-> 0, seen |-> << >>, discarded |-> 0]

\* the configuration of an Agent: one vision pixel row of vision_size
\* pixels, force_dim force channels, five action components
AgentConfig(s, n, dp, dr) ==
  [seq_len |-> s, num_data_gen_envs |-> n, vision_size |-> 1,
   force_dim |-> 1, action_dim |-> 5, max_force |-> s,
   dpos |-> dp, drot |-> dr]

\* configurations for the histories: every sequence length and number
\* of environments, unit ranges
HistoryConfigs ==
  { AgentConfig(s, n, 1, 1) : s \in 2..MaxSeqLen, n \in 1..MaxEnvs }

\* configurations for the conversions: every pair of ranges
RangeConfigs ==
  { AgentConfig(2, 1, dp, dr) : dp \in 1..MaxDelta, dr \in 1..MaxDelta }

\* the configuration of the Agent the Trainer constructs (line 81): two
\* environments, so that one stepEnvsWait can complete up to two episodes
TrainerAgentConfig == AgentConfig(2, 2, 1, 1)

\* Trainer.__init__ (lines 27-87) and the shared storage it is paired with
TrainerConstructed(cfg, ini) ==
  /\ config = cfg
  /\ initial = ini
  /\ pre_training_step = ini.checkpoint.pre_training_step
  /\ training_step = ini.checkpoint.training_step
  /\ LET restored == RestoreOptimizers(ini.checkpoint.optimizer_state,
                                       ini.sizes)
     IN IF restored = ValueError
        \* lines 73-78 raised: the constructor returns no Trainer, and
        \* continuousUpdateWeights is never called
        THEN pc = "raised" /\ opt = Optimizers(ini.sizes)
        ELSE pc = "idle" /\ opt = restored
  /\ latent = 0
  /\ actor = 0
  /\ critic = ini.critic
  /\ critic_target = ini.critic_target
  /\ next_batch = NoBatch
  /\ batch = NoBatch
  /\ num_eps = 0
  /\ target_eps = 0
  /\ env_pending = 0
  /\ sample_requests = 0
  /\ info = InitialInfo(ini.checkpoint)
  /\ queue = << >>
  /\ saved = None
  /\ hist = InitialHist

\* a Trainer of any configuration and initial checkpoint, with the Agent it
\* constructs on its own models (line 81)
Init ==
  /\ \E cfg \in Configs, ini \in Initials(CriticParams) :
       TrainerConstructed(cfg, ini)
  /\ AgentConstructed(TrainerAgentConfig, TrainerModels)
  /\ agent_ret = NoReturn

\* ------------------------------------------------------ messages, helpers
SetInfo(data) == [op |-> "setInfo", data |-> data]
SaveCheckpoint == [op |-> "saveCheckpoint", data |-> << >>]

\* x.remote(...) on the shared storage: the request joins the queue
Send(q, msgs) == q \o msgs

\* ray.get(shared_storage.getInfo.remote(key)): answered after every earlier
\* request of the Trainer has run
CanGetInfo == queue = << >>

\* where control goes when a loop is left, and on "continue"
PretrainingExit == "pol_prefetch"
PolicyExit == "done"

\* faulty variant: "continue" re-enters the pretraining loop
PauseContinue_ToPretraining == "pre_top"

\* faulty variant: "continue" is missing, the iteration runs while paused
PauseContinue_StartsIteration == "pol_async"

PauseContinue == "pol_top"

Bump(field) == [hist EXCEPT ![field] = @ + 1]

\* lines 100 and 115: the condition of the generation loops
GenerationPending(n, target) == n < target

\* ------------------------------------------------ generateExpertData 89-103
CallGenerateExpertData ==
  /\ pc = "idle"
  /\ pc' = "gx_top"
  /\ num_eps' = 0
  /\ target_eps' = config.num_expert_episodes
  /\ UNCHANGED << agentVars, config, initial, trainerVars, batchVars, env_pending,
                  storageVars, queue, hist >>

GxTop ==
  /\ pc = "gx_top"
  /\ IF GenerationPending(num_eps, target_eps)
       THEN pc' = "gx_async" /\ UNCHANGED genVars
       ELSE pc' = "idle" /\ num_eps' = 0 /\ target_eps' = 0
  /\ UNCHANGED << agentVars, config, initial, trainerVars, batchVars, env_pending,
                  storageVars, queue, hist >>

GxAsync ==
  /\ pc = "gx_async"
  /\ env_pending' = env_pending + 1
  /\ pc' = "gx_wait"
  /\ UNCHANGED << agentVars, config, initial, trainerVars, batchVars, genVars,
                  storageVars, queue, hist >>

GxWait ==
  /\ pc = "gx_wait"
  /\ env_pending > 0
  /\ \E complete_eps \in 0..agent_config.num_data_gen_envs :
       num_eps' = num_eps + complete_eps
  /\ env_pending' = env_pending - 1
  /\ pc' = "gx_top"
  /\ UNCHANGED << agentVars, config, initial, trainerVars, batchVars, target_eps,
                  storageVars, queue, hist >>

\* ----------------------------------------------------- generateData 105-118
CallGenerateData ==
  /\ pc = "idle"
  /\ \E n \in 0..MaxEpisodes : target_eps' = n
  /\ num_eps' = 0
  /\ pc' = "gd_top"
  /\ UNCHANGED << agentVars, config, initial, trainerVars, batchVars, env_pending,
                  storageVars, queue, hist >>

GdTop ==
  /\ pc = "gd_top"
  /\ IF GenerationPending(num_eps, target_eps)
       THEN pc' = "gd_async" /\ UNCHANGED genVars
       ELSE pc' = "idle" /\ num_eps' = 0 /\ target_eps' = 0
  /\ UNCHANGED << agentVars, config, initial, trainerVars, batchVars, env_pending,
                  storageVars, queue, hist >>

GdAsync ==
  /\ pc = "gd_async"
  /\ env_pending' = env_pending + 1
  /\ pc' = "gd_wait"
  /\ UNCHANGED << agentVars, config, initial, trainerVars, batchVars, genVars,
                  storageVars, queue, hist >>

GdWait ==
  /\ pc = "gd_wait"
  /\ env_pending > 0
  /\ \E complete_eps \in 0..agent_config.num_data_gen_envs :
       num_eps' = num_eps + complete_eps
  /\ env_pending' = env_pending - 1
  /\ pc' = "gd_top"
  /\ UNCHANGED << agentVars, config, initial, trainerVars, batchVars, target_eps,
                  storageVars, queue, hist >>

\* ------------------------------------- continuousUpdateWeights, 131-157
\* line 131 resetEnvs, line 134 the first sampleLatent request
CallContinuousUpdateWeights ==
  /\ pc = "idle"
  /\ sample_requests' = sample_requests + 1
  /\ next_batch' = [kind |-> "latent", id |-> sample_requests + 1]
  /\ pc' = "pre_top"
  /\ UNCHANGED << agentVars, config, initial, trainerVars, batch, genVars, env_pending,
                  storageVars, queue, hist >>

\* lines 135-136: the loop condition; getInfo is only called when steps remain
PreTop ==
  /\ pc = "pre_top"
  /\ IF PretrainingPending(pre_training_step, config)
       THEN /\ CanGetInfo
            /\ IF LoopContinues(TRUE, info.terminate)
                 THEN /\ pc' = "pre_get"
                      /\ hist' = [hist EXCEPT
                                    !.preStarted = @ + 1,
                                    !.startedOnTerminate = @ \/ info.terminate]
                 ELSE /\ pc' = PretrainingExit
                      /\ hist' = [hist EXCEPT !.preExit = "terminate"]
       ELSE /\ pc' = PretrainingExit
            /\ hist' = [hist EXCEPT !.preExit = "target"]
  /\ UNCHANGED << agentVars, config, initial, trainerVars, batchVars, genVars,
                  env_pending, storageVars, queue >>

\* line 137: batch = ray.get(next_batch)[1]
PreGet ==
  /\ pc = "pre_get"
  /\ batch' = next_batch
  /\ next_batch' = NoBatch
  /\ pc' = "pre_fetch"
  /\ UNCHANGED << agentVars, config, initial, trainerVars, sample_requests, genVars,
                  env_pending, storageVars, queue, hist >>

\* line 139: next_batch = replay_buffer.sampleLatent.remote(...)
PreFetch ==
  /\ pc = "pre_fetch"
  /\ sample_requests' = sample_requests + 1
  /\ next_batch' = [kind |-> "latent", id |-> sample_requests + 1]
  /\ pc' = "pre_latent"
  /\ UNCHANGED << agentVars, config, initial, trainerVars, batch, genVars, env_pending,
                  storageVars, queue, hist >>

\* updateLatent, lines 236-256: one step of the latent optimizer
updateLatent ==
  /\ opt' = [opt EXCEPT !["latent"] = OptimizerStep("latent", @)]
  /\ latent' = latent + 1

\* faulty variant: the alignment step is taken with the critic optimizer
updateLatentAlign_CriticOptimizer ==
  /\ opt' = [opt EXCEPT !["critic"] = OptimizerStep("critic", @)]
  /\ latent' = latent + 1

\* updateLatentAlign, lines 258-267: a second step of the latent optimizer
updateLatentAlign ==
  /\ opt' = [opt EXCEPT !["latent"] = OptimizerStep("latent", @)]
  /\ latent' = latent + 1

PreLatent ==
  /\ pc = "pre_latent"
  /\ updateLatent
  /\ pc' = "pre_align"
  /\ UNCHANGED << agentVars, config, initial, pre_training_step, training_step, actor,
                  critic, critic_target, batchVars, genVars, env_pending,
                  storageVars, queue, hist >>

PreAlign ==
  /\ pc = "pre_align"
  /\ updateLatentAlign
  /\ pc' = "pre_publish"
  /\ UNCHANGED << agentVars, config, initial, pre_training_step, training_step, actor,
                  critic, critic_target, batchVars, genVars, env_pending,
                  storageVars, queue, hist >>

\* lines 145-155: publish the counter (and log the learning rate)
PrePublish ==
  /\ pc = "pre_publish"
  /\ LET v == PublishedPretrainingStep(pre_training_step) IN
       /\ queue' = Send(queue, << SetInfo("pretraining_step" :> v) >>)
       /\ hist' = [hist EXCEPT !.sentPretrainingStep = v]
  /\ pc' = "pre_inc"
  /\ UNCHANGED << agentVars, config, initial, trainerVars, batchVars, genVars,
                  env_pending, storageVars >>

\* line 157
PreInc ==
  /\ pc = "pre_inc"
  /\ pre_training_step' = PreTrainingStepInc(pre_training_step)
  /\ hist' = Bump("preDone")
  /\ pc' = "pre_top"
  /\ UNCHANGED << agentVars, config, initial, training_step, opt, latent, actor, critic,
                  critic_target, batchVars, genVars, env_pending,
                  storageVars, queue >>

\* ------------------------------------- continuousUpdateWeights, 159-234
\* line 160: the first sample request replaces the pending sampleLatent one
\* faulty variant: no policy batch is requested before the policy loop
PolPrefetch_Skipped ==
  /\ pc = "pol_prefetch"
  /\ pc' = "pol_top"
  /\ UNCHANGED << agentVars, config, initial, trainerVars, batchVars, genVars,
                  env_pending, storageVars, queue, hist >>

PolPrefetch ==
  /\ pc = "pol_prefetch"
  /\ sample_requests' = sample_requests + 1
  /\ next_batch' = [kind |-> "policy", id |-> sample_requests + 1]
  /\ pc' = "pol_top"
  /\ UNCHANGED << agentVars, config, initial, trainerVars, batch, genVars, env_pending,
                  storageVars, queue, hist >>

\* lines 161-162: the loop condition
PolTop ==
  /\ pc = "pol_top"
  /\ IF TrainingPending(training_step, config)
       THEN /\ CanGetInfo
            /\ IF LoopContinues(TRUE, info.terminate)
                 THEN /\ pc' = "pol_pause"
                      /\ hist' = [hist EXCEPT
                                    !.startedOnTerminate = @ \/ info.terminate,
                                    !.pausedPoll = FALSE]
                 ELSE /\ pc' = PolicyExit
                      /\ hist' = [hist EXCEPT !.polExit = "terminate",
                                              !.pausedPoll = FALSE]
       ELSE /\ pc' = PolicyExit
            /\ hist' = [hist EXCEPT !.polExit = "target",
                                    !.pausedPoll = FALSE]
  /\ UNCHANGED << agentVars, config, initial, trainerVars, batchVars, genVars,
                  env_pending, storageVars, queue >>

\* lines 165-167: poll the pause flag; sleep and "continue" while it is set
PolPause ==
  /\ pc = "pol_pause"
  /\ CanGetInfo
  /\ IF info.pause_training
       THEN pc' = PauseContinue /\ hist' = [hist EXCEPT !.pausedPoll = TRUE]
       ELSE /\ pc' = "pol_async"
            /\ hist' = [hist EXCEPT !.polStarted = @ + 1]
  /\ UNCHANGED << agentVars, config, initial, trainerVars, batchVars, genVars,
                  env_pending, storageVars, queue >>

\* line 169
PolAsync ==
  /\ pc = "pol_async"
  /\ env_pending' = env_pending + 1
  /\ pc' = "pol_get"
  /\ UNCHANGED << agentVars, config, initial, trainerVars, batchVars, genVars,
                  storageVars, queue, hist >>

\* line 171
PolGet ==
  /\ pc = "pol_get"
  /\ batch' = next_batch
  /\ next_batch' = NoBatch
  /\ pc' = "pol_fetch"
  /\ UNCHANGED << agentVars, config, initial, trainerVars, sample_requests, genVars,
                  env_pending, storageVars, queue, hist >>

\* line 172
PolFetch ==
  /\ pc = "pol_fetch"
  /\ sample_requests' = sample_requests + 1
  /\ next_batch' = [kind |-> "policy", id |-> sample_requests + 1]
  /\ pc' = "pol_latent"
  /\ UNCHANGED << agentVars, config, initial, trainerVars, batch, genVars, env_pending,
                  storageVars, queue, hist >>

\* line 174
PolLatent ==
  /\ pc = "pol_latent"
  /\ updateLatent
  /\ pc' = "pol_align"
  /\ UNCHANGED << agentVars, config, initial, pre_training_step, training_step, actor,
                  critic, critic_target, batchVars, genVars, env_pending,
                  storageVars, queue, hist >>

\* faulty variant: the policy loop leaves out the alignment step
PolAlign_Skipped ==
  /\ pc = "pol_align"
  /\ pc' = "pol_critic"
  /\ UNCHANGED << agentVars, config, initial, trainerVars, batchVars, genVars,
                  env_pending, storageVars, queue, hist >>

\* line 175
PolAlign ==
  /\ pc = "pol_align"
  /\ updateLatentAlign
  /\ pc' = "pol_critic"
  /\ UNCHANGED << agentVars, config, initial, pre_training_step, training_step, actor,
                  critic, critic_target, batchVars, genVars, env_pending,
                  storageVars, queue, hist >>

\* updateSLAC, lines 306-308: the critic step moves the critic's parameters
PolCritic ==
  /\ pc = "pol_critic"
  /\ opt' = [opt EXCEPT !["critic"] = OptimizerStep("critic", @)]
  /\ critic' \in CriticParams
  /\ pc' = "pol_actor"
  /\ UNCHANGED << agentVars, config, initial, pre_training_step, training_step, latent,
                  actor, critic_target, batchVars, genVars, env_pending,
                  storageVars, queue, hist >>

\* updateSLAC, lines 316-318
PolActor ==
  /\ pc = "pol_actor"
  /\ opt' = [opt EXCEPT !["actor"] = OptimizerStep("actor", @)]
  /\ actor' = actor + 1
  /\ pc' = "pol_alpha"
  /\ UNCHANGED << agentVars, config, initial, pre_training_step, training_step, latent,
                  critic, critic_target, batchVars, genVars, env_pending,
                  storageVars, queue, hist >>

\* updateSLAC, lines 323-329
PolAlpha ==
  /\ pc = "pol_alpha"
  /\ opt' = [opt EXCEPT !["alpha"] = OptimizerStep("alpha", @)]
  /\ pc' = "pol_inc"
  /\ UNCHANGED << agentVars, config, initial, pre_training_step, training_step, latent,
                  actor, critic, critic_target, batchVars, genVars,
                  env_pending, storageVars, queue, hist >>

\* line 178
PolInc ==
  /\ pc = "pol_inc"
  /\ training_step' = TrainingStepInc(training_step)
  /\ pc' = "pol_wait"
  /\ UNCHANGED << agentVars, config, initial, pre_training_step, opt, latent, actor,
                  critic, critic_target, batchVars, genVars, env_pending,
                  storageVars, queue, hist >>

\* faulty variant: the iteration goes on without collecting the step
PolWait_NotCollected ==
  /\ pc = "pol_wait"
  /\ pc' = "pol_soft"
  /\ UNCHANGED << agentVars, config, initial, trainerVars, batchVars, genVars,
                  env_pending, storageVars, queue, hist >>

\* line 180: the returned episode count is not used
PolWait ==
  /\ pc = "pol_wait"
  /\ env_pending > 0
  /\ env_pending' = env_pending - 1
  /\ pc' = "pol_soft"
  /\ UNCHANGED << agentVars, config, initial, trainerVars, batchVars, genVars,
                  storageVars, queue, hist >>

\* line 183
PolSoft ==
  /\ pc = "pol_soft"
  /\ critic_target' = softTargetUpdate(critic_target, critic, config.tau)
  /\ hist' = [hist EXCEPT !.softCalls = @ + 1, !.prevTarget = critic_target]
  /\ pc' = "pol_lr"
  /\ UNCHANGED << agentVars, config, initial, pre_training_step, training_step, opt,
                  latent, actor, critic, batchVars, genVars, env_pending,
                  storageVars, queue >>

\* lines 186-188: only the actor and critic schedulers are stepped
PolLr ==
  /\ pc = "pol_lr"
  /\ IF LrDecayDue(training_step, config)
       THEN opt' = [opt EXCEPT !["actor"] = SchedulerStep(@),
                               !["critic"] = SchedulerStep(@)]
       ELSE UNCHANGED opt
  /\ pc' = "pol_ckpt"
  /\ UNCHANGED << agentVars, config, initial, pre_training_step, training_step, latent,
                  actor, critic, critic_target, batchVars, genVars,
                  env_pending, storageVars, queue, hist >>

\* lines 191-210: the requests a due checkpoint sends, in issue order
CheckpointRequests ==
  << SetInfo(("weights" :> CheckpointWeights(latent, actor, critic)) @@
             ("optimizer_state" :> CheckpointOptimizerState(opt))) >>
  \o (IF config.save_model THEN << SaveCheckpoint >> ELSE << >>)

PolCkpt ==
  /\ pc = "pol_ckpt"
  /\ IF CheckpointDue(training_step, config)
       THEN /\ queue' = Send(queue, CheckpointRequests)
            /\ hist' = [hist EXCEPT
                          !.ckpts = @ + 1,
                          !.saves = @ + (IF config.save_model THEN 1 ELSE 0),
                          !.capturedAt = training_step]
       ELSE UNCHANGED << queue, hist >>
  /\ pc' = "pol_publish"
  /\ UNCHANGED << agentVars, config, initial, trainerVars, batchVars, genVars,
                  env_pending, storageVars >>

\* lines 213-234: publish the counter and the eval trigger (and log)
PolPublish ==
  /\ pc = "pol_publish"
  /\ LET v == PublishedTrainingStep(training_step)
         e == RunEvalInterval(training_step, config) IN
       /\ queue' = Send(queue, << SetInfo(("training_step" :> v) @@
                                          ("run_eval_interval" :> e)) >>)
       /\ hist' = [hist EXCEPT !.polDone = @ + 1,
                               !.sentTrainingStep = v,
                               !.sentRunEval = e]
  /\ pc' = "pol_top"
  /\ UNCHANGED << agentVars, config, initial, trainerVars, batchVars, genVars,
                  env_pending, storageVars >>

\* ------------------------------------------------------- shared storage
\* setInfo(dict): whole-value replacement of the given keys
ApplySetInfo(i, data) ==
  [k \in DOMAIN i |-> IF k \in DOMAIN data THEN data[k] ELSE i[k]]

\* saveCheckpoint(): persists the checkpoint currently held
Persisted(i) ==
  [weights |-> i.weights, optimizer_state |-> i.optimizer_state,
   pretraining_step |-> i.pretraining_step, training_step |-> i.training_step]

StorageRun ==
  /\ queue # << >>
  /\ LET m == Head(queue) IN
       IF m.op = "setInfo"
         THEN info' = ApplySetInfo(info, m.data) /\ UNCHANGED saved
         ELSE saved' = << Persisted(info) >> /\ UNCHANGED info
  /\ queue' = Tail(queue)
  /\ UNCHANGED << agentVars, config, initial, pc, trainerVars, batchVars, genVars,
                  env_pending, hist >>

\* another actor sets or clears a flag of the shared storage; the flags are
\* read by continuousUpdateWeights only, so changes made while a generation
\* loop runs are taken to happen once it has returned
GenerationPCs == {"gx_top", "gx_async", "gx_wait", "gd_top", "gd_async", "gd_wait"}

SetTerminate ==
  /\ pc \notin GenerationPCs
  /\ \E b \in BOOLEAN :
       /\ b # info.terminate
       /\ info' = [info EXCEPT !.terminate = b]
  /\ UNCHANGED << agentVars, config, initial, pc, trainerVars, batchVars, genVars,
                  env_pending, queue, saved, hist >>

SetPauseTraining ==
  /\ pc \notin GenerationPCs
  /\ \E b \in BOOLEAN :
       /\ b # info.pause_training
       /\ info' = [info EXCEPT !.pause_training = b]
  /\ UNCHANGED << agentVars, config, initial, pc, trainerVars, batchVars, genVars,
                  env_pending, queue, saved, hist >>

\* ----------------------------------------------------------- specification
Next ==
  \/ CallGenerateExpertData \/ GxTop \/ GxAsync \/ GxWait
  \/ CallGenerateData \/ GdTop \/ GdAsync \/ GdWait
  \/ CallContinuousUpdateWeights
  \/ PreTop \/ PreGet \/ PreFetch \/ PreLatent \/ PreAlign \/ PrePublish
  \/ PreInc
  \/ PolPrefetch \/ PolTop \/ PolPause \/ PolAsync \/ PolGet \/ PolFetch
  \/ PolLatent \/ PolAlign \/ PolCritic \/ PolActor \/ PolAlpha \/ PolInc
  \/ PolWait \/ PolSoft \/ PolLr \/ PolCkpt \/ PolPublish
  \/ StorageRun \/ SetTerminate \/ SetPauseTraining

Spec == Init /\ [][Next]_vars

\* ===================================================================
\* The Agent
\* ===================================================================
\* ------------------------------------------------- arguments of the calls
\* a batch of camera images: per environment one frame with a border of
\* one pixel around the vision_size pixels that are kept
VisionInput(k, cfg) ==
  [e \in 1..cfg.num_data_gen_envs |->
     [i \in 1..(cfg.vision_size + 2) |-> 10 * k + 3 * e + i]]

\* a batch of force windows: per environment an older and a latest reading,
\* each within [-max_force, max_force]
ForceInput(k, cfg) ==
  [e \in 1..cfg.num_data_gen_envs |->
     LET s == IF (k + e) % 2 = 0 THEN 1 ELSE -1 IN
       << [i \in 1..cfg.force_dim |-> -s * cfg.max_force],
          [i \in 1..cfg.force_dim |-> s * cfg.max_force] >>]

\* what actor.sample may return: a batch of normalized actions
ActionSample(a, cfg) ==
  [e \in 1..cfg.num_data_gen_envs |->
     [d \in 1..cfg.action_dim |->
        ((a + e + d) % (2 * NormDen + 1)) - NormDen]]

\* the values min + j * (max - min) / PhysDen of one component, from one
\* step below the range to one step above it
PlanValues(range) ==
  { Phys(range[1]) + j * (range[2] - range[1]) : j \in -1..(PhysDen + 1) }

\* planner actions, one environment
PlanActions(cfg) ==
  { << << p, dx, dy, dz, dtheta >> >> :
      p \in PlanValues(p_range), dx \in PlanValues(dx_range(cfg)),
      dy \in PlanValues(dy_range(cfg)), dz \in PlanValues(dz_range(cfg)),
      dtheta \in PlanValues(dtheta_range(cfg)) }

IsPlanAction(x, cfg) ==
  /\ x[1][1] \in PlanValues(p_range)
  /\ x[1][2] \in PlanValues(dx_range(cfg))
  /\ x[1][3] \in PlanValues(dy_range(cfg))
  /\ x[1][4] \in PlanValues(dz_range(cfg))
  /\ x[1][5] \in PlanValues(dtheta_range(cfg))

\* normalized actions, one environment
UnscaledValues == (-NormDen)..NormDen
UnscaledActions ==
  { << << p, dx, dy, dz, dtheta >> >> :
      p \in UnscaledValues, dx \in UnscaledValues, dy \in UnscaledValues,
      dz \in UnscaledValues, dtheta \in UnscaledValues }
IsUnscaledAction(x) == \A d \in 1..5 : x[1][d] \in UnscaledValues

\* ---------------------------------------------------- resetEpisode 51-54
\* faulty variant: the action history is not re-created
CallResetEpisode_KeepsActions ==
  /\ vision_history' = EpisodeHistories(agent_config).vision
  /\ force_history' = EpisodeHistories(agent_config).force
  /\ agent_ret' = [op |-> "resetEpisode", args |-> << >>, out |-> << >>]
  /\ agent_hist' = [calls |-> 0, seen |-> << >>,
                    discarded |-> agent_hist.calls]
  /\ UNCHANGED << action_history, agent_config, agent_weights, trainerSide >>

CallResetEpisode ==
  /\ vision_history' = EpisodeHistories(agent_config).vision
  /\ force_history' = EpisodeHistories(agent_config).force
  /\ action_history' = EpisodeHistories(agent_config).action
  /\ agent_ret' = [op |-> "resetEpisode", args |-> << >>, out |-> << >>]
  /\ agent_hist' = [calls |-> 0, seen |-> << >>,
                    discarded |-> agent_hist.calls]
  /\ UNCHANGED << agent_config, agent_weights, trainerSide >>

\* ------------------------------------------------------- getAction 56-92
CallGetAction ==
  /\ agent_hist.calls < MaxCalls
  /\ \E k \in 1..2, a \in 1..2, evaluate \in BOOLEAN :
       LET cfg    == agent_config
           envs   == 1..cfg.num_data_gen_envs
           vision == [e \in envs |->
                        centerCrop(VisionInput(k, cfg)[e], cfg.vision_size)]
           force  == [e \in envs |->
                        normalizeForce(ForceInput(k, cfg)[e][Len(ForceInput(k, cfg)[e])],
                                       cfg.max_force)]
           action == ActionSample(a, cfg)
           decoded == decodeActions(action, cfg)
       IN
         /\ vision_history' = [e \in envs |-> Push(vision_history[e], vision[e])]
         /\ force_history' = [e \in envs |-> Push(force_history[e], force[e])]
         /\ action_history' = [e \in envs |-> Push(action_history[e], action[e])]
         /\ agent_ret' = [op   |-> "getAction",
                          args |-> << k, evaluate >>,
                          out  |-> << decoded.unscaled, decoded.scaled, 0 >>]
         /\ agent_hist' = [calls |-> agent_hist.calls + 1,
                           seen  |-> Append(agent_hist.seen,
                                            [vision |-> vision, force |-> force,
                                             action |-> action]),
                           discarded |-> 0]
  /\ UNCHANGED << agent_config, agent_weights, trainerSide >>

\* ------------------------------------------------------ getWeights 156-161
CallGetWeights ==
  /\ agent_ret' = [op |-> "getWeights", args |-> << >>,
                   out |-> getWeights(agent_weights)]
  /\ UNCHANGED << agent_config, vision_history, force_history, action_history,
                  agent_weights, agent_hist, trainerSide >>

\* ------------------------------------------------------ setWeights 163-173
CallSetWeights ==
  /\ \E weights \in {None} \cup WeightSamples \cup {getWeights(agent_weights)} :
       /\ agent_weights' = setWeights(agent_weights, weights)
       /\ agent_ret' = [op |-> "setWeights", args |-> << weights >>,
                        out |-> << >>]
  /\ UNCHANGED << agent_config, vision_history, force_history, action_history,
                  agent_hist, trainerSide >>

\* ----------------------------------------------- convertPlanAction 119-141
CallConvertPlanAction ==
  /\ agent_ret.op = "pending"
  /\ IsPlanAction(agent_ret.args[1], agent_config)
  /\ LET plan_action == agent_ret.args[1] IN
       LET r == convertPlanAction(plan_action, agent_config) IN
         agent_ret' = [op |-> "convertPlanAction", args |-> << plan_action >>,
                       out |-> << r.unscaled, r.scaled >>]
  /\ UNCHANGED << agent_config, vision_history, force_history, action_history,
                  agent_weights, agent_hist, trainerSide >>

\* --------------------------------------------------- decodeActions 94-117
CallDecodeActions ==
  /\ agent_ret.op = "pending"
  /\ IsUnscaledAction(agent_ret.args[1])
  /\ LET unscaled == agent_ret.args[1] IN
       LET r == decodeActions(unscaled, agent_config) IN
         agent_ret' = [op |-> "decodeActions", args |-> << unscaled >>,
                       out |-> << r.unscaled, r.scaled >>]
  /\ UNCHANGED << agent_config, vision_history, force_history, action_history,
                  agent_weights, agent_hist, trainerSide >>

\* ----------------------------------------------------------- specification
\* a Trainer that is constructed and never started
StandbyConfig ==
  [pretraining_steps |-> 0, training_steps |-> 0, checkpoint_interval |-> 1,
   save_model |-> FALSE, eval_interval |-> 1, lr_decay_interval |-> 1,
   tau |-> 0, num_expert_episodes |-> 0]
StandbyInitial ==
  [sizes |-> LargerLatent,
   checkpoint |-> [pre_training_step |-> 0, training_step |-> 0,
                   optimizer_state |-> None],
   critic |-> << 0, Unit >>, critic_target |-> << 0, Unit >>]

\* an Agent of its own, driven through its episode interface
InitAgent ==
  /\ TrainerConstructed(StandbyConfig, StandbyInitial)
  /\ \E cfg \in HistoryConfigs : AgentConstructed(cfg, OwnModels)
  /\ agent_ret = NoReturn

NextAgent ==
  \/ CallResetEpisode \/ CallGetAction \/ CallGetWeights \/ CallSetWeights

SpecAgent == InitAgent /\ [][NextAgent]_vars

\* an Agent of its own and an action it is about to be asked to convert
InitActions ==
  /\ TrainerConstructed(StandbyConfig, StandbyInitial)
  /\ \E cfg \in RangeConfigs :
       /\ AgentConstructed(cfg, OwnModels)
       /\ \E x \in PlanActions(cfg) \cup UnscaledActions :
            agent_ret = Pending(<< x >>)

NextActions ==
  \/ CallConvertPlanAction \/ CallDecodeActions

SpecActions == InitActions /\ [][NextActions]_vars

\* ===================================================================
\* Properties
\* ===================================================================
PretrainingPCs == {"pre_top", "pre_get", "pre_fetch", "pre_latent",
                   "pre_align", "pre_publish", "pre_inc"}
PretrainingIterationPCs == PretrainingPCs \ {"pre_top"}
PolicyIterationPCs == {"pol_async", "pol_get", "pol_fetch", "pol_latent",
                       "pol_align", "pol_critic", "pol_actor", "pol_alpha",
                       "pol_inc", "pol_wait", "pol_soft", "pol_lr",
                       "pol_ckpt", "pol_publish"}
PolicyPCs == PolicyIterationPCs \cup {"pol_prefetch", "pol_top", "pol_pause"}
\* positions at which no iteration of either loop is in flight
BetweenIterations == {"idle", "pre_top", "pol_prefetch", "pol_top",
                      "pol_pause", "done"}

\* the optimizers as the constructor left them
InitialOpt ==
  LET restored == RestoreOptimizers(initial.checkpoint.optimizer_state,
                                    initial.sizes)
  IN IF restored = ValueError THEN Optimizers(initial.sizes) ELSE restored

\* every iteration that was started has run all of its steps
IterationsComplete ==
  /\ hist.preDone = hist.preStarted
  /\ hist.polDone = hist.polStarted
  /\ pre_training_step = initial.checkpoint.pre_training_step + hist.preStarted
  /\ training_step = initial.checkpoint.training_step + hist.polStarted
  /\ opt["latent"].step =
       InitialOpt["latent"].step + 2 * (hist.preStarted + hist.polStarted)
  /\ opt["critic"].step = InitialOpt["critic"].step + hist.polStarted
  /\ opt["actor"].step = InitialOpt["actor"].step + hist.polStarted
  /\ opt["alpha"].step = InitialOpt["alpha"].step + hist.polStarted
  /\ hist.softCalls = hist.polStarted
  /\ env_pending = 0
  /\ hist.preStarted > 0 =>
       hist.sentPretrainingStep = PublishedPretrainingStep(pre_training_step - 1)
  /\ hist.polStarted > 0 =>
       hist.sentTrainingStep = PublishedTrainingStep(training_step)

\* C1: a terminate flag set while an iteration is in flight does not cut the
\* iteration short and lets no further iteration start: no loop-top check
\* that found the flag set ever let an iteration begin, and whenever the
\* Trainer is between iterations (in particular once the call has returned)
\* every iteration that began has run in full.
TerminateOnlyAtLoopTop ==
  /\ ~hist.startedOnTerminate
  /\ pc \in BetweenIterations => IterationsComplete

\* C1 witness: the flag is set while a policy iteration is about to publish
TerminateSetMidIteration ==
  /\ info.terminate
  /\ pc = "pol_publish"
  /\ hist.polStarted = 1

\* C2: until the first policy iteration starts, the actor, critic and alpha
\* optimizers, the actor, the critic, the target critic and training_step
\* are as construction left them; only the latent optimizer has stepped,
\* twice per completed pretraining iteration.
PretrainingTouchesLatentOnly ==
  hist.polStarted = 0 =>
    /\ opt["actor"] = InitialOpt["actor"]
    /\ opt["critic"] = InitialOpt["critic"]
    /\ opt["alpha"] = InitialOpt["alpha"]
    /\ actor = 0
    /\ critic = initial.critic
    /\ critic_target = initial.critic_target
    /\ hist.softCalls = 0
    /\ training_step = initial.checkpoint.training_step
    /\ opt["latent"].step >= InitialOpt["latent"].step + 2 * hist.preDone
    /\ latent = opt["latent"].step - InitialOpt["latent"].step

\* C2 witness: two pretraining iterations have completed
TwoPretrainingIterationsDone ==
  /\ hist.preDone = 2
  /\ hist.polStarted = 0
  /\ pc = "pre_top"
  /\ opt["latent"].step = 4

\* C3 as claimed: no pretraining step after the policy phase was entered,
\* and a policy iteration runs only with pre_training_step >= pretraining_steps
PolicyOnlyAfterPretrainingTarget ==
  /\ hist.polStarted > 0 => pc \notin PretrainingPCs
  /\ pc \in PolicyIterationPCs =>
       pre_training_step >= config.pretraining_steps

\* C3 as amended: the phases are sequential and never go back (once the
\* policy phase is entered the Trainer never returns to a pretraining
\* position and pre_training_step is frozen), and a policy iteration runs
\* only after the pretraining loop was left, either with
\* pre_training_step >= pretraining_steps or because a pretraining loop-top
\* check found terminate set.
PhasesSequentialInv ==
  /\ hist.polStarted > 0 => pc \notin PretrainingPCs
  /\ pc \in PolicyPCs \cup {"done"} =>
       /\ hist.preExit # "none"
       /\ hist.preDone = hist.preStarted
       /\ \/ pre_training_step >= config.pretraining_steps
          \/ hist.preExit = "terminate"

PhasesSequentialStep ==
  pc \in PolicyPCs \cup {"done"} =>
    /\ pc' \in PolicyPCs \cup {"done"}
    /\ pre_training_step' = pre_training_step
    /\ hist'.preStarted = hist.preStarted

PhasesSequential == []PhasesSequentialInv /\ [][PhasesSequentialStep]_vars

\* C3 witness: a policy iteration runs after pretraining reached its target
PolicyIterationAfterPretraining ==
  /\ pc = "pol_latent"
  /\ hist.preDone = 2
  /\ hist.preExit = "target"

\* C4: each counter changes only by +1, at the increment of its own loop;
\* between iterations it equals its initial value plus the number of
\* completed iterations of its phase; started at or below its target it
\* never exceeds it; and when the policy loop is left without a terminate
\* signal, training_step == training_steps.
CountersInv ==
  /\ pc \in BetweenIterations \cup GenerationPCs =>
       /\ pre_training_step = initial.checkpoint.pre_training_step + hist.preDone
       /\ training_step = initial.checkpoint.training_step + hist.polDone
  /\ initial.checkpoint.pre_training_step <= config.pretraining_steps =>
       pre_training_step <= config.pretraining_steps
  /\ initial.checkpoint.training_step <= config.training_steps =>
       training_step <= config.training_steps
  /\ ( /\ pc = "done"
       /\ hist.polExit = "target"
       /\ initial.checkpoint.training_step <= config.training_steps ) =>
       training_step = config.training_steps

CountersStep ==
  /\ \/ pre_training_step' = pre_training_step
     \/ pc = "pre_inc" /\ pre_training_step' = pre_training_step + 1
  /\ \/ training_step' = training_step
     \/ pc = "pol_inc" /\ training_step' = training_step + 1
  /\ pc = "pre_inc" /\ pc' # pc => pre_training_step' = pre_training_step + 1
  /\ pc = "pol_inc" /\ pc' # pc => training_step' = training_step + 1

CountersMonotonic == []CountersInv /\ [][CountersStep]_vars

\* C4 witness: a fresh run with no pretraining and one training step returned
OneStepRunReturned ==
  /\ pc = "done"
  /\ hist.polExit = "target"
  /\ config.pretraining_steps = 0
  /\ config.training_steps = 1
  /\ initial.checkpoint.training_step = 0
  /\ training_step = 1

\* C5: checkpoints are published exactly at the policy iterations whose
\* post-increment training_step is a multiple of checkpoint_interval, once
\* each, and saveCheckpoint is requested on exactly those when save_model is
\* set; so a run from 0 to T without terminate publishes T div
\* checkpoint_interval checkpoints.
MultiplesIn(a, b, c) == (b \div c) - (a \div c)

\* the last training_step whose iteration has passed the checkpoint step
CheckpointedThrough ==
  IF pc \in {"pol_wait", "pol_soft", "pol_lr", "pol_ckpt"}
    THEN training_step - 1 ELSE training_step

WeightsRequests ==
  { i \in DOMAIN queue :
      queue[i].op = "setInfo" /\ "weights" \in DOMAIN queue[i].data }
SaveRequests == { i \in DOMAIN queue : queue[i].op = "saveCheckpoint" }

CheckpointEveryInterval ==
  /\ hist.ckpts = MultiplesIn(initial.checkpoint.training_step,
                              CheckpointedThrough, config.checkpoint_interval)
  /\ hist.saves = (IF config.save_model THEN hist.ckpts ELSE 0)
  /\ Cardinality(WeightsRequests) <= 1
  /\ Cardinality(SaveRequests) <= 1
  /\ \A i \in SaveRequests : i = 1 \/ (i - 1) \in WeightsRequests
  /\ ~config.save_model => SaveRequests = {} /\ saved = None
  /\ hist.polStarted = 0 => hist.ckpts = 0 /\ info.weights = None
  /\ ( /\ pc = "done"
       /\ hist.polExit = "target"
       /\ initial.checkpoint.training_step = 0 ) =>
       hist.ckpts = config.training_steps \div config.checkpoint_interval

\* C5 witness: two steps with checkpoint_interval 2 published one checkpoint
OneCheckpointInTwoSteps ==
  /\ pc = "done"
  /\ hist.polExit = "target"
  /\ initial.checkpoint.training_step = 0
  /\ config.training_steps = 2
  /\ config.checkpoint_interval = 2
  /\ config.save_model
  /\ hist.ckpts = 1
  /\ hist.saves = 1

\* C6 as claimed: when a saveCheckpoint request is the next one the shared
\* storage runs, the 'training_step' it holds is the training_step at which
\* the weights and optimizer states it holds were captured.
CheckpointIsConsistentSnapshot ==
  (queue # << >> /\ Head(queue).op = "saveCheckpoint") =>
    /\ info.weights = CheckpointWeights(latent, actor, critic)
    /\ info.training_step = hist.capturedAt

\* C7 as claimed: constructing a Trainer from the 'optimizer_state' a
\* checkpoint published gives every optimizer the state saved from the
\* optimizer of the same role.
OptimizerStateRoundTrips ==
  info.weights # None =>
    LET saved_state == info.optimizer_state
        restored == RestoreOptimizers(saved_state, initial.sizes)
    IN /\ restored # ValueError
       /\ restored["latent"] = saved_state[1]
       /\ restored["actor"] = saved_state[2]
       /\ restored["critic"] = saved_state[3]

\* C8 as claimed: after every completed pretraining iteration the last
\* 'pretraining_step' sent to the shared storage equals pre_training_step,
\* and equals pretraining_steps when the phase ends on its target.
PretrainingStepPublished ==
  /\ (hist.preDone > 0 /\ pc \in {"pre_top", "pol_prefetch"}) =>
       hist.sentPretrainingStep = pre_training_step
  /\ (hist.preDone > 0 /\ hist.preExit = "target") =>
       hist.sentPretrainingStep = config.pretraining_steps

\* C9: after every completed policy iteration the last 'training_step' sent
\* to the shared storage is the Trainer's training_step and the
\* 'run_eval_interval' sent with it says whether that step is a positive
\* multiple of eval_interval; once the storage has run the request it holds
\* those values; and between iterations, paused polls included, the Trainer
\* sends nothing.
TrainingStepPublishedInv ==
  /\ (hist.polDone > 0 /\ pc \in {"pol_top", "pol_pause", "done"}) =>
       /\ hist.sentTrainingStep = training_step
       /\ hist.sentRunEval =
            (training_step > 0 /\ training_step % config.eval_interval = 0)
       /\ queue = << >> =>
            /\ info.training_step = training_step
            /\ info.run_eval_interval =
                 (training_step > 0 /\ training_step % config.eval_interval = 0)
  /\ hist.polDone = 0 =>
       /\ hist.sentTrainingStep = -1
       /\ info.training_step = initial.checkpoint.training_step
       /\ ~info.run_eval_interval

TrainingStepPublishedStep ==
  pc \in {"pol_top", "pol_pause", "done"} =>
    /\ Len(queue') <= Len(queue)
    /\ hist'.sentTrainingStep = hist.sentTrainingStep
    /\ hist'.sentRunEval = hist.sentRunEval

TrainingStepPublished ==
  []TrainingStepPublishedInv /\ [][TrainingStepPublishedStep]_vars

\* C9 witness: the second step of a run with eval_interval 2 was published
\* and has reached the shared storage
EvalTriggerPublished ==
  /\ pc = "pol_top"
  /\ hist.polDone = 2
  /\ config.eval_interval = 2
  /\ training_step = 2
  /\ queue = << >>
  /\ info.training_step = 2
  /\ info.run_eval_interval

\* C10: right after softTargetUpdate every target parameter is
\* tau*live + (1-tau)*target of the values before the call and the live
\* critic is untouched; with tau = 1 the target equals the live critic after
\* each call, with tau = 0 the target keeps its initial value for ever.
CriticSettled ==
  pc \notin {"pol_actor", "pol_alpha", "pol_inc", "pol_wait", "pol_soft"}

SoftTargetUpdateInv ==
  /\ pc = "pol_lr" =>
       /\ Len(critic_target) = Len(critic)
       /\ \A i \in 1..Len(critic) :
            TauDen * critic_target[i] =
              config.tau * critic[i] + (TauDen - config.tau) * hist.prevTarget[i]
  /\ (config.tau = TauDen /\ hist.softCalls > 0 /\ CriticSettled) =>
       critic_target = critic
  /\ config.tau = 0 => critic_target = initial.critic_target

SoftTargetUpdateStep == pc = "pol_soft" => critic' = critic

SoftTargetUpdateIsPolyak ==
  []SoftTargetUpdateInv /\ [][SoftTargetUpdateStep]_vars

\* C10 witness: with tau = 1 a call moved a differing target onto the critic
TargetCopiedWithTauOne ==
  /\ pc = "pol_lr"
  /\ config.tau = TauDen
  /\ hist.prevTarget # critic
  /\ critic_target = critic

\* ===================================================================
\* Properties of the Agent
\* ===================================================================
\* a step of getAction: one more call since the last reset
GetActionStep == agent_hist'.calls = agent_hist.calls + 1

\* the observation and action the latest getAction call worked with
Latest == agent_hist.seen[Len(agent_hist.seen)]
Envs == 1..agent_config.num_data_gen_envs

\* history 'new' is history 'old' moved one slot to the front, with v in
\* the last slot
ShiftedLeft(old, new, v) ==
  /\ Len(new) = Len(old)
  /\ Len(new) >= 1
  /\ new[Len(new)] = v
  /\ \A i \in 1..(Len(new) - 1) : new[i] = old[i + 1]

\* the first slot of 'new' holds what the second slot of 'old' held
FirstFromSecond(old, new) == Len(old) >= 2 /\ new[1] = old[2]

\* C11 as stated: for every sequence length >= 2, getAction shifts each of
\* the vision, force and action histories left by one; the last slot holds
\* the new entry, the first slot what the second slot held, and every slot
\* before the last what the next slot held.
AllHistoriesShiftFirstFromSecond ==
  [][GetActionStep =>
       \A e \in Envs :
         /\ ShiftedLeft(vision_history[e], vision_history'[e], Latest'.vision[e])
         /\ FirstFromSecond(vision_history[e], vision_history'[e])
         /\ ShiftedLeft(force_history[e], force_history'[e], Latest'.force[e])
         /\ FirstFromSecond(force_history[e], force_history'[e])
         /\ ShiftedLeft(action_history[e], action_history'[e], Latest'.action[e])
         /\ FirstFromSecond(action_history[e], action_history'[e])]_vars

\* C11 amended: getAction shifts the vision and force histories left by
\* one as stated, for either value of evaluate; the action history, which
\* has seq_len - 1 slots, is shifted the same way, and its first slot holds
\* what its second slot held only when seq_len >= 3: with seq_len = 2 its
\* only slot is overwritten by the newly sampled action.
HistoriesShiftLeft ==
  [][GetActionStep =>
       \A e \in Envs :
         /\ ShiftedLeft(vision_history[e], vision_history'[e], Latest'.vision[e])
         /\ FirstFromSecond(vision_history[e], vision_history'[e])
         /\ ShiftedLeft(force_history[e], force_history'[e], Latest'.force[e])
         /\ FirstFromSecond(force_history[e], force_history'[e])
         /\ ShiftedLeft(action_history[e], action_history'[e], Latest'.action[e])
         /\ IF agent_config.seq_len >= 3
              THEN FirstFromSecond(action_history[e], action_history'[e])
              ELSE action_history'[e] = << Latest'.action[e] >>]_vars

\* an evaluation call has pushed the first observation out of a history of
\* three slots, which now holds the three latest observations
EvaluateCallEvictedOldest ==
  /\ agent_ret.op = "getAction"
  /\ agent_ret.args[2] = TRUE
  /\ agent_config.seq_len = 3
  /\ agent_hist.calls = 4
  /\ \A e \in Envs :
       /\ vision_history[e] = [i \in 1..3 |-> agent_hist.seen[i + 1].vision[e]]
       /\ force_history[e] = [i \in 1..3 |-> agent_hist.seen[i + 1].force[e]]
       /\ action_history[e] = [i \in 1..2 |-> agent_hist.seen[i + 2].action[e]]
       /\ vision_history[e][1] # Zeros(agent_config.vision_size)

\* C12 as stated: after construction and after any sequence of resetEpisode
\* and getAction calls, the vision, force and action history of every
\* environment slot has seq_len entries.
AllHistoriesHaveSeqLenSlots ==
  /\ Len(vision_history) = agent_config.num_data_gen_envs
  /\ Len(force_history) = agent_config.num_data_gen_envs
  /\ Len(action_history) = agent_config.num_data_gen_envs
  /\ \A e \in Envs :
       /\ Len(vision_history[e]) = agent_config.seq_len
       /\ Len(force_history[e]) = agent_config.seq_len
       /\ Len(action_history[e]) = agent_config.seq_len

\* C12 amended: after construction and after any sequence of resetEpisode
\* and getAction calls, every environment slot has a vision history and a
\* force history of seq_len entries and an action history of seq_len - 1
\* entries.
HistoryLengthsFixed ==
  /\ Len(vision_history) = agent_config.num_data_gen_envs
  /\ Len(force_history) = agent_config.num_data_gen_envs
  /\ Len(action_history) = agent_config.num_data_gen_envs
  /\ \A e \in Envs :
       /\ Len(vision_history[e]) = agent_config.seq_len
       /\ Len(force_history[e]) = agent_config.seq_len
       /\ Len(action_history[e]) = agent_config.seq_len - 1

\* two environments, a window of two, and a third call since the reset:
\* the windows are full and an entry has been evicted
ThirdCallOnWindowOfTwo ==
  /\ agent_ret.op = "getAction"
  /\ agent_config.seq_len = 2
  /\ agent_config.num_data_gen_envs = 2
  /\ agent_hist.calls = 3
  /\ Len(vision_history[2]) = 2
  /\ Len(force_history[2]) = 2
  /\ Len(action_history[2]) = 1

\* slot i of a window of 'slots' entries after the calls recorded in
\* agent_hist.seen, started from zeros: the entry of call
\* calls - (slots - i), or zero when the reset is more recent than that
WindowSlot(field, e, i, slots, zero) ==
  LET c == agent_hist.calls - (slots - i) IN
    IF c >= 1 THEN agent_hist.seen[c][field][e] ELSE zero

\* C13: right after resetEpisode every slot of the vision, force and
\* action history of every environment is zero, and at any time the
\* histories are determined by the getAction calls made since the last
\* reset alone: nothing from before the reset remains.
ResetClearsHistories ==
  /\ agent_ret.op = "resetEpisode" =>
       \A e \in Envs :
         /\ \A i \in DOMAIN vision_history[e] :
              \A x \in DOMAIN vision_history[e][i] : vision_history[e][i][x] = 0
         /\ \A i \in DOMAIN force_history[e] :
              \A x \in DOMAIN force_history[e][i] : force_history[e][i][x] = 0
         /\ \A i \in DOMAIN action_history[e] :
              \A x \in DOMAIN action_history[e][i] : action_history[e][i][x] = 0
  /\ \A e \in Envs :
       /\ \A i \in DOMAIN vision_history[e] :
            vision_history[e][i] =
              WindowSlot("vision", e, i, Len(vision_history[e]),
                         [x \in 1..agent_config.vision_size |-> 0])
       /\ \A i \in DOMAIN force_history[e] :
            force_history[e][i] =
              WindowSlot("force", e, i, Len(force_history[e]),
                         [x \in 1..agent_config.force_dim |-> 0])
       /\ \A i \in DOMAIN action_history[e] :
            action_history[e][i] =
              WindowSlot("action", e, i, Len(action_history[e]),
                         [x \in 1..agent_config.action_dim |-> 0])

\* a reset has just discarded the histories of as many calls as the windows
\* hold
ResetAfterFullWindow ==
  /\ agent_ret.op = "resetEpisode"
  /\ agent_hist.discarded >= agent_config.seq_len
  /\ agent_hist.calls = 0
  /\ vision_history = EpisodeHistories(agent_config).vision
  /\ force_history = EpisodeHistories(agent_config).force
  /\ action_history = EpisodeHistories(agent_config).action

\* ===================================================================
\* Properties of the action conversions
\* ===================================================================
\* the range of each action component, in the order p, dx, dy, dz, dtheta
Ranges(cfg) ==
  << p_range, dx_range(cfg), dy_range(cfg), dz_range(cfg), dtheta_range(cfg) >>

\* the value of [lo, hi] nearest to x
Nearest(x, lo, hi) == IF x < lo THEN lo ELSE IF x > hi THEN hi ELSE x

\* C14: for every planner action, in range or not, convertPlanAction
\* returns without error a normalized action with every component in
\* [-1, 1] and a physical action equal to the input clamped, component by
\* component, to the configured range.
ConvertPlanActionClamps ==
  agent_ret.op = "convertPlanAction" =>
    LET plan     == agent_ret.args[1][1]
        unscaled == agent_ret.out[1][1]
        scaled   == agent_ret.out[2][1]
        ranges   == Ranges(agent_config)
    IN /\ Len(unscaled) = 5
       /\ Len(scaled) = 5
       /\ \A d \in 1..5 :
            /\ -NormDen <= unscaled[d]
            /\ unscaled[d] <= NormDen
            /\ scaled[d] = Nearest(plan[d], PhysDen * ranges[d][1],
                                   PhysDen * ranges[d][2])

\* a planner action with p above its range, dx below its range and dtheta
\* above its range has been converted; dy and dz are inside
OutOfRangePlanConverted ==
  /\ agent_ret.op = "convertPlanAction"
  /\ agent_config.dpos = 2
  /\ agent_ret.args[1][1][1] > PhysDen
  /\ agent_ret.args[1][1][2] < -PhysDen * agent_config.dpos
  /\ agent_ret.args[1][1][5] > PhysDen * agent_config.drot
  /\ agent_ret.args[1][1][3] = 0
  /\ agent_ret.out[1][1][1] = NormDen
  /\ agent_ret.out[1][1][2] = -NormDen
  /\ agent_ret.out[2][1][1] = PhysDen
  /\ agent_ret.out[2][1][2] = -PhysDen * agent_config.dpos
  /\ agent_ret.out[2][1][3] = 0

\* a physical action with every component inside its range
InRange(plan, cfg) ==
  \A d \in 1..5 :
    /\ PhysDen * Ranges(cfg)[d][1] <= plan[d]
    /\ plan[d] <= PhysDen * Ranges(cfg)[d][2]

\* C15: for each of the five components the two conversions are inverse
\* to each other: a normalized u in [-1, 1] decodes to a physical value
\* inside the range that getUnscaledActions maps back to u, and a physical
\* value a inside the range is returned unchanged by normalizing and
\* decoding it.
ConversionsRoundTrip ==
  /\ agent_ret.op = "decodeActions" =>
       LET unscaled == agent_ret.args[1][1]
           scaled   == agent_ret.out[2][1]
           ranges   == Ranges(agent_config)
       IN /\ agent_ret.out[1][1] = unscaled
          /\ InRange(scaled, agent_config)
          /\ \A d \in 1..5 :
               getUnscaledActions(scaled[d], ranges[d]) = unscaled[d]
  /\ (agent_ret.op = "convertPlanAction"
        /\ InRange(agent_ret.args[1][1], agent_config)) =>
       LET plan     == agent_ret.args[1][1]
           unscaled == agent_ret.out[1][1]
           ranges   == Ranges(agent_config)
       IN /\ agent_ret.out[2][1] = plan
          /\ \A d \in 1..5 :
               /\ unscaled[d] = getUnscaledActions(plan[d], ranges[d])
               /\ Decode(unscaled[d], ranges[d]) = plan[d]

\* the normalized action (-1, 1, 0, -1, 1) has been decoded with ranges of
\* different widths
MixedActionDecoded ==
  /\ agent_ret.op = "decodeActions"
  /\ agent_config.dpos = 2
  /\ agent_config.drot = 1
  /\ agent_ret.args[1][1] = << -NormDen, NormDen, 0, -NormDen, NormDen >>
  /\ agent_ret.out[2][1] = << 0, 2 * PhysDen, 0, -2 * PhysDen, PhysDen >>

\* ===================================================================
\* Properties of the Agent's weights
\* ===================================================================
\* C16: setWeights(None) changes nothing; setWeights of a triple loads its
\* first element into the latent model, its second into the actor and its
\* third into the critic, the order in which getWeights returns them, so
\* that setWeights(getWeights()) leaves all three models as they were; in
\* every case the history buffers are left unchanged.
SetWeightsLoadsInGetWeightsOrder ==
  [][agent_ret'.op = "setWeights" =>
       LET weights == agent_ret'.args[1] IN
         /\ UNCHANGED << vision_history, force_history, action_history >>
         /\ weights = None => agent_weights' = agent_weights
         /\ weights # None =>
              /\ agent_weights'.latent = weights[1]
              /\ agent_weights'.actor = weights[2]
              /\ agent_weights'.critic = weights[3]
              /\ getWeights(agent_weights') = weights
         /\ weights = getWeights(agent_weights) =>
              agent_weights' = agent_weights]_vars

\* weights (3, 1, 2) have been loaded into an Agent whose histories hold
\* an observation
WeightsLoadedMidEpisode ==
  /\ agent_ret.op = "setWeights"
  /\ agent_ret.args[1] = << 3, 1, 2 >>
  /\ agent_weights = [latent |-> 3, actor |-> 1, critic |-> 2]
  /\ agent_hist.calls >= 1

\* ===================================================================
\* Properties of the Trainer's pipelines
\* ===================================================================
\* positions at which a stepEnvsAsync request is outstanding
StepOutstandingPCs ==
  {"gx_wait", "gd_wait", "pol_get", "pol_fetch", "pol_latent", "pol_align",
   "pol_critic", "pol_actor", "pol_alpha", "pol_inc", "pol_wait"}

AsyncWaitPairedInv ==
  /\ env_pending \in {0, 1}
  /\ env_pending = 1 <=> pc \in StepOutstandingPCs
  /\ pc \in {"gx_async", "gx_wait", "gd_async", "gd_wait"} =>
       num_eps < target_eps

AsyncWaitPairedStep ==
  \* a request is issued only when none is outstanding, and collected by
  \* the wait that follows it
  /\ env_pending' > env_pending =>
       env_pending = 0 /\ pc \in {"gx_async", "gd_async", "pol_async"}
  /\ env_pending' < env_pending =>
       pc \in {"gx_wait", "gd_wait", "pol_wait"}
  \* policy iteration: the batch is consumed and the models are updated
  \* while the step is outstanding, the target is updated after it was
  \* collected
  /\ (pc \in PolicyPCs /\ batch' # batch) => env_pending = 1
  /\ (pc \in PolicyPCs
        /\ << latent, actor, critic >>' # << latent, actor, critic >>) =>
       env_pending = 1 /\ env_pending' = 1
  /\ (pc = "pol_alpha" /\ pc' # pc) => env_pending' = 1
  /\ hist'.softCalls # hist.softCalls => env_pending = 0 /\ pc = "pol_soft"
  \* generation loops: the count grows by what a wait returned, and the
  \* loop is left at the first check that finds the target reached
  /\ (num_eps' # num_eps /\ pc \notin {"gx_wait", "gd_wait"}) =>
       /\ num_eps' = 0
       /\ pc = "idle" \/ (pc \in {"gx_top", "gd_top"} /\ pc' = "idle")
  /\ (pc \in {"gx_wait", "gd_wait"} /\ pc' # pc) =>
       /\ num_eps' >= num_eps
       /\ env_pending' = env_pending - 1
  /\ (pc \in {"gx_top", "gd_top"} /\ pc' = "idle") => num_eps >= target_eps
  /\ (pc \in {"gx_top", "gd_top"} /\ pc' \in {"gx_async", "gd_async"}) =>
       num_eps < target_eps

\* C17: stepEnvsAsync and stepEnvsWait are strictly paired, with at most
\* one request outstanding and none when a loop is left; a policy
\* iteration issues the request before it consumes its batch and collects
\* it after updateSLAC and before softTargetUpdate; a generation loop's
\* episode count grows only by what each wait returns, and the loop is
\* left exactly when the count first reaches the target.
AsyncWaitPaired == []AsyncWaitPairedInv /\ [][AsyncWaitPairedStep]_vars

\* the second policy iteration has finished its updates and counted its
\* step while its environment step is still outstanding
SecondStepOutstandingAfterUpdate ==
  /\ pc = "pol_wait"
  /\ hist.polStarted = 2
  /\ env_pending = 1
  /\ hist.softCalls = 1
  /\ batch.kind = "policy"

\* positions of an iteration at which its batch has been received
PretrainingBatchPCs == PretrainingIterationPCs \ {"pre_get"}
PolicyBatchPCs == PolicyIterationPCs \ {"pol_async", "pol_get"}
\* positions at which gradient updates on the batch run
GradientPCs == {"pre_latent", "pre_align", "pol_latent", "pol_align",
                "pol_critic", "pol_actor", "pol_alpha"}

SamplingPipelinedInv ==
  \* the future held, if any, is the latest request
  /\ next_batch # NoBatch => next_batch.id = sample_requests
  \* iteration k of pretraining works on the k-th sampleLatent result,
  \* iteration j of policy training on the j-th sample result
  /\ pc \in PretrainingBatchPCs =>
       batch = [kind |-> "latent", id |-> hist.preStarted]
  /\ pc \in PolicyBatchPCs =>
       batch = [kind |-> "policy",
                id |-> hist.preStarted + 1 + hist.polStarted]
  \* between receiving a batch and requesting the next no future is held
  /\ pc \in {"pre_fetch", "pol_fetch"} => next_batch = NoBatch
  \* the next batch has been requested when the gradient updates run
  /\ pc \in GradientPCs =>
       next_batch = [kind |-> batch.kind, id |-> batch.id + 1]

SamplingPipelinedStep ==
  \* a batch is received from the future held, which is then used up
  /\ batch' # batch =>
       /\ next_batch # NoBatch
       /\ batch' = next_batch
       /\ next_batch' = NoBatch
       /\ batch'.id > batch.id
       /\ batch'.kind = IF pc \in PretrainingPCs THEN "latent" ELSE "policy"
  \* a request replaces no future that is still to be consumed, except the
  \* last sampleLatent request, dropped when the policy loop is entered
  /\ sample_requests' # sample_requests =>
       /\ sample_requests' = sample_requests + 1
       /\ next_batch'.id = sample_requests'
       /\ next_batch = NoBatch \/ pc = "pol_prefetch"
       /\ UNCHANGED << batch, trainerVars >>

\* C18: replay sampling runs one batch ahead: the request for the next
\* batch is issued after the current batch was received and before any
\* gradient update on it; at most one unconsumed future is held; every
\* received batch is used by exactly one iteration; pretraining consumes
\* sampleLatent results only and policy training sample results only.
SamplingPipelined == []SamplingPipelinedInv /\ [][SamplingPipelinedStep]_vars

\* after two pretraining iterations the first policy iteration updates on
\* the fourth batch requested, with the fifth already requested
FirstPolicyBatchAfterPretraining ==
  /\ pc = "pol_latent"
  /\ hist.preDone = 2
  /\ hist.polStarted = 1
  /\ batch = [kind |-> "policy", id |-> 4]
  /\ next_batch = [kind |-> "policy", id |-> 5]

\* ===================================================================
\* Properties of pausing
\* ===================================================================
PausedPollInv ==
  \* the batch requested before the pause is still held at the loop top
  \* and is the one the next policy iteration will work on
  /\ hist.pausedPoll =>
       /\ pc = "pol_top"
       /\ next_batch = [kind |-> "policy",
                        id |-> hist.preStarted + 1 + hist.polStarted + 1]
       /\ env_pending = 0
       /\ queue = << >>
  /\ pc \in {"pol_top", "pol_pause", "pol_async", "pol_get"} =>
       next_batch = [kind |-> "policy", id |-> sample_requests]

PausedPollStep ==
  \* a poll that finds pause_training set returns to the loop top and
  \* changes nothing else
  /\ (pc = "pol_pause" /\ info.pause_training /\ pc' # pc) =>
       /\ pc' = "pol_top"
       /\ hist' = [hist EXCEPT !.pausedPoll = TRUE]
       /\ UNCHANGED << trainerVars, batchVars, genVars, env_pending,
                       storageVars, queue >>
  \* the loop-top check after such a poll ends the loop when terminate is
  \* set, and otherwise polls again, again without any other effect
  /\ (pc = "pol_top" /\ hist.pausedPoll /\ pc' # pc) =>
       /\ pc' = IF info.terminate \/ ~TrainingPending(training_step, config)
                  THEN "done" ELSE "pol_pause"
       /\ UNCHANGED << trainerVars, batchVars, genVars, env_pending,
                       storageVars, queue >>
       /\ hist'.polStarted = hist.polStarted
  \* the iteration that starts once the pause is lifted receives the batch
  \* that was held during the pause
  /\ (pc = "pol_get" /\ pc' # pc) => batch' = next_batch

\* C19: while pause_training is observed true the Trainer only sleeps and
\* polls again: no environment step, no batch consumed, no sample request,
\* no gradient or target update, no counter change, no publication; the
\* batch prefetched before the pause stays outstanding and is consumed by
\* the first iteration after the pause; terminate set while paused ends the
\* loop at the next loop-top check.
PausedTrainerOnlyPolls == []PausedPollInv /\ [][PausedPollStep]_vars

\* the Trainer is back at the loop top after a poll that found it paused,
\* one policy iteration done, with terminate set in the meantime
PausedAfterFirstStepThenTerminated ==
  /\ pc = "pol_top"
  /\ hist.pausedPoll
  /\ info.pause_training
  /\ info.terminate
  /\ hist.polDone = 1
  /\ training_step < config.training_steps
  /\ next_batch.kind = "policy"

\* ===================================================================
\* Properties of the learning-rate schedule
\* ===================================================================
\* how often the learning rate of a role was decayed since construction
Decays(r) == opt[r].lr - InitialOpt[r].lr

\* C20: the latent, actor and critic schedulers are each stepped exactly
\* once in a policy iteration whose incremented training_step is a
\* positive multiple of lr_decay_interval and never otherwise, so after k
\* such iterations each of the three learning rates was decayed k times.
AllSchedulersStepOnInterval ==
  /\ [](Decays("latent") = Decays("actor") /\ Decays("actor") = Decays("critic"))
  /\ [][LET due == training_step > 0
                     /\ training_step % config.lr_decay_interval = 0
            inc == IF pc = "pol_lr" /\ pc' # pc /\ due THEN 1 ELSE 0
        IN \A r \in {"latent", "actor", "critic"} :
             opt'[r].lr = opt[r].lr + inc]_vars

\* ===================================================================
\* Properties of the update accounting
\* ===================================================================
\* optimizer.step() calls made on a role's optimizer since construction
Steps(r) == opt[r].step - InitialOpt[r].step

\* iterations of either loop that have run to their end
Completed == hist.preDone + hist.polDone

\* what the iteration in flight has done so far: steps of the latent,
\* critic, actor and alpha optimizers and softTargetUpdate calls beyond
\* those of the completed iterations
InFlight ==
  LET o == InitialOpt IN
    << opt["latent"].step - o["latent"].step - 2 * Completed,
       opt["critic"].step - o["critic"].step - hist.polDone,
       opt["actor"].step - o["actor"].step - hist.polDone,
       opt["alpha"].step - o["alpha"].step - hist.polDone,
       hist.softCalls - hist.polDone >>

\* the stages of one iteration, in order: nothing done, updateLatent,
\* updateLatentAlign, then for a policy iteration the critic, actor and
\* alpha steps of updateSLAC and softTargetUpdate
PretrainingStages == { << 0, 0, 0, 0, 0 >>, << 1, 0, 0, 0, 0 >>,
                       << 2, 0, 0, 0, 0 >> }
PolicyStages == PretrainingStages \cup
                { << 2, 1, 0, 0, 0 >>, << 2, 1, 1, 0, 0 >>,
                  << 2, 1, 1, 1, 0 >>, << 2, 1, 1, 1, 1 >> }

UpdateAccountingInv ==
  LET ahead == InFlight IN
  \* with no iteration in flight the counts are exactly those of the
  \* completed iterations
  /\ pc \in BetweenIterations \cup GenerationPCs =>
       ahead = << 0, 0, 0, 0, 0 >>
  \* an iteration in flight is ahead by the updates it has made, which
  \* come in the one order
  /\ pc \in PretrainingIterationPCs => ahead \in PretrainingStages
  /\ pc \in PolicyIterationPCs => ahead \in PolicyStages
  /\ pc \in {"pre_publish", "pre_inc"} => ahead = << 2, 0, 0, 0, 0 >>
  /\ pc \in {"pol_lr", "pol_ckpt", "pol_publish"} =>
       ahead = << 2, 1, 1, 1, 1 >>
  \* both latent steps of an iteration are taken on the batch it received
  /\ pc \in PretrainingBatchPCs => batch.id = hist.preStarted
  /\ latent = Steps("latent")

UpdateAccountingStep ==
  \* one update at a time: a step advances at most one of the counts, by one
  LET d == << opt'["latent"].step - opt["latent"].step,
              opt'["critic"].step - opt["critic"].step,
              opt'["actor"].step - opt["actor"].step,
              opt'["alpha"].step - opt["alpha"].step,
              hist'.softCalls - hist.softCalls >>
  IN /\ \A i \in 1..5 : d[i] \in {0, 1}
     /\ d[1] + d[2] + d[3] + d[4] + d[5] <= 1
     /\ d # << 0, 0, 0, 0, 0 >> => UNCHANGED batch

\* the step counts of the optimizers and the number of softTargetUpdate
\* calls are those of the completed iterations
CountsOfCompleted ==
  /\ opt["latent"].step = 2 * Completed
  /\ opt["critic"].step = hist.polDone
  /\ opt["actor"].step = hist.polDone
  /\ opt["alpha"].step = hist.polDone
  /\ hist.softCalls = hist.polDone

\* C21 as claimed: in every reachable state the latent optimizer's step
\* count is twice the number of completed iterations of either loop and
\* the critic, actor and alpha step counts and the number of
\* softTargetUpdate calls are the number of completed policy iterations,
\* the updates being made one at a time.
CountsEqualCompletedEverywhere ==
  []CountsOfCompleted /\ [][UpdateAccountingStep]_vars

\* C21: counted since construction, the latent optimizer has taken two
\* steps per completed iteration of either loop (updateLatent, then
\* updateLatentAlign on the same batch), and the critic, actor and alpha
\* optimizers and softTargetUpdate one per completed policy iteration; an
\* iteration makes its updates one at a time in the order latent,
\* latent-align, critic, actor, alpha, soft target update.
UpdateAccounting == []UpdateAccountingInv /\ [][UpdateAccountingStep]_vars

\* a run started without a checkpoint has returned after two pretraining
\* iterations and two policy iterations
FreshRunAccounted ==
  /\ pc = "done"
  /\ initial.checkpoint.optimizer_state = None
  /\ initial.checkpoint.training_step = 0
  /\ hist.preDone = 2
  /\ hist.polDone = 2
  /\ opt["latent"].step = 8
  /\ opt["critic"].step = 2
  /\ opt["actor"].step = 2
  /\ opt["alpha"].step = 2
  /\ hist.softCalls = 2

\* ===================================================================
\* Termination of continuousUpdateWeights
\* ===================================================================
\* a step of the Trainer inside continuousUpdateWeights
TrainerStep ==
  \/ CallContinuousUpdateWeights
  \/ PreTop \/ PreGet \/ PreFetch \/ PreLatent \/ PreAlign \/ PrePublish
  \/ PreInc
  \/ PolPrefetch \/ PolTop \/ PolPause \/ PolAsync \/ PolGet \/ PolFetch
  \/ PolLatent \/ PolAlign \/ PolCritic \/ PolActor \/ PolAlpha \/ PolInc
  \/ PolWait \/ PolSoft \/ PolLr \/ PolCkpt \/ PolPublish

\* the Trainer is called once; the other actors set and clear the flags
NextLive == TrainerStep \/ StorageRun \/ SetTerminate \/ SetPauseTraining

\* every pair of step targets, with a checkpoint saved at every step (the
\* most requests the shared storage can be sent) and one setting of the
\* options that only feed computations
LiveConfigs ==
  { c \in Configs : /\ c.save_model
                    /\ c.checkpoint_interval = 1
                    /\ c.tau = 1
                    /\ c.num_expert_episodes = 1 }

InitLive ==
  /\ \E cfg \in LiveConfigs, ini \in Initials({ << 0, Unit >> }) :
       /\ TrainerConstructed(cfg, ini)
       /\ pc = "idle"
  /\ AgentConstructed(TrainerAgentConfig, TrainerModels)
  /\ agent_ret = NoReturn

\* every remote future resolves: the Trainer keeps running and the shared
\* storage runs the requests it was sent
SpecLive ==
  InitLive /\ [][NextLive]_vars /\ WF_vars(TrainerStep) /\ WF_vars(StorageRun)

Returned == pc = "done"
PollPCs == {"pol_top", "pol_pause"}
PausedForGood == info.pause_training /\ ~info.terminate

ReturnedOnlyWhen ==
  Returned =>
    \/ hist.preExit = "terminate"
    \/ hist.polExit = "terminate"
    \/ /\ pre_training_step >= config.pretraining_steps
       /\ training_step >= config.training_steps

\* C22 as stated: the call returns if terminate is eventually set for good
\* or pause_training is eventually always false, and only after terminate
\* was observed at a loop-top check or both targets were reached; if,
\* before the call has returned, pause_training becomes true forever with
\* terminate never set, the call never returns and from some point on the
\* policy loop only polls.
ReturnsUnlessPausedForever ==
  /\ (<>[]info.terminate \/ <>[]~info.pause_training) => <>Returned
  /\ []ReturnedOnlyWhen
  /\ <>(~Returned /\ []PausedForGood) =>
       ([]~Returned /\ <>[](pc \in PollPCs))

\* C22 amended: the call returns if terminate is eventually set for good
\* or pause_training is eventually always false, and only after terminate
\* was observed at a loop-top check or both targets were reached; if the
\* policy loop is between iterations with a policy step remaining, and
\* from then on pause_training stays true and terminate is never set, the
\* call never returns and the loop alternates between its loop-top check
\* and the pause poll forever.  Pausing does not hold up pretraining or an
\* iteration in flight, and with no policy step remaining the call returns.
ReturnsUnlessPausedWithStepsLeft ==
  /\ (<>[]info.terminate \/ <>[]~info.pause_training) => <>Returned
  /\ []ReturnedOnlyWhen
  /\ <>(pc \in PollPCs /\ training_step < config.training_steps
          /\ []PausedForGood) =>
       /\ []~Returned
       /\ <>[](pc \in PollPCs)
       /\ []<>(pc = "pol_top")
       /\ []<>(pc = "pol_pause")
  /\ <>[](PausedForGood /\ training_step >= config.training_steps) =>
       <>Returned

\* the call has returned while paused with a policy step remaining,
\* because its loop-top check observed terminate
ReturnedOnTerminateWhilePaused ==
  /\ Returned
  /\ hist.polExit = "terminate"
  /\ info.pause_training
  /\ info.terminate
  /\ hist.polDone = 1
  /\ training_step < config.training_steps

====
